---- MODULE Spec2Model ----
(***************************************************************************)
(* Model of the campus-paths route engine: the LabeledGraph container,     *)
(* the Dijkstra solver ShortestPathFinder.shortestPathSolver, and the      *)
(* CampusMap query layer with its memoization cache.                       *)
(*                                                                         *)
(* Nodes are opaque values compared by equals(); labels are the edge       *)
(* weights (Double in the source), modelled by small naturals.             *)
(*                                                                         *)
(* Three specifications share the variables:                               *)
(*   Spec       a LabeledGraph under arbitrary client calls;               *)
(*   SpecSolver one run of shortestPathSolver, iteration by iteration,     *)
(*              on every small graph;                                      *)
(*   SpecMap    a CampusMap: its constructor's two loops, then queries.    *)
(***************************************************************************)
EXTENDS Integers, Sequences, FiniteSets, TLC

\* ---------------------------------------------------------------- bounds
\* SpecSolver: the largest edge weight and the largest number of edges of
\* the graphs the solver is run on.
MaxLabel == 2
MaxEdges == 3
\* Spec: the largest label a client passes and the largest number of edges
\* stored in the LabeledGraph at one time.
MaxWeight == 1
MaxStored == 2
\* SpecMap: the largest number of distinct building records and of distinct
\* path records the parser hands over (distances are 0..MaxWeight).
MaxBuildings == 2
MaxPaths == 1
\* The solver-invocation count of a name pair is recorded up to this value.
MaxCalls == 2
\* SpecRace: findShortestPath calls made by each request thread
MaxThreadCalls == 1

\* The node values the clients use (the test driver's graphs are
\* LabeledGraph<String, Double>; a CampusMap's nodes are Points, which are
\* compared by their coordinates only).
Node == {"A", "B", "C"}
Label == 0..MaxLabel
Weight == 0..MaxWeight

VARIABLES
    nodes,            \* LabeledGraph.nodes     : Set<E>
    neighbors,        \* LabeledGraph.neighbors : Map<E, Set<LabeledEdge<E,T>>>
    ret,              \* outcome of the last call: operation, result, value
    solver,           \* shortestPathSolver's locals: fringe, finished, result
    query,            \* shortestPathSolver's arguments start and end
    pushes,           \* history: fringe.add calls made by the run so far
    pc,               \* where the CampusMap constructor stands
    buildings,        \* CampusMap.buildings        : Set<CampusBuilding>
    pointToBuildings, \* CampusMap.pointToBuildings : Map<Point, CampusBuilding>
    shortNameToPoint, \* CampusMap.shortNameToPoint : Map<String, Point>
    shortestPathMap,  \* CampusMap.shortestPathMap  : Map<ShortestPathPair, Path>
    solverCalls,      \* history: solver invocations per name pair
    returned,         \* history: the results returned so far per name pair
    response,         \* SparkServer: the answer to the last /path request
    threads           \* request threads inside findShortestPath: pc, locals

graphVars == <<nodes, neighbors>>
solverVars == <<solver, query, pushes>>
serverVars == <<response, threads>>
mapVars == <<pc, buildings, pointToBuildings, shortNameToPoint,
             shortestPathMap, solverCalls, returned, serverVars>>
vars == <<nodes, neighbors, ret, solver, query, pushes, pc, buildings,
          pointToBuildings, shortNameToPoint, shortestPathMap, solverCalls,
          returned, response, threads>>

\* ------------------------------------------------------------------ maps
\* A java.util.Map is a function over its key set.
EmptyMap == [x \in {} |-> {}]
\* Map.put(k, v)
Put(m, k, v) == [x \in (DOMAIN m) \cup {k} |-> IF x = k THEN v ELSE m[x]]

\* ------------------------------------------------------------ LabeledEdge
\* new LabeledEdge<>(from, to, label); equals() compares all three fields,
\* which is equality of the record.
LabeledEdge(from, to, label) == [from |-> from, to |-> to, label |-> label]

\* ----------------------------------------------------------- LabeledGraph
\* A graph value: the two fields of a LabeledGraph object.
Graph(ns, nb) == [nodes |-> ns, neighbors |-> nb]
\* A call's effect: the graph after it and what it returned or threw.
Effect(G, out, val) == [graph |-> G, out |-> out, val |-> val]
Bool(b) == IF b THEN "true" ELSE "false"

\* Number of edges stored in the whole graph.
RECURSIVE SumCard(_, _)
SumCard(m, ks) ==
    IF ks = {} THEN 0
    ELSE LET k == CHOOSE x \in ks : TRUE
         IN Cardinality(m[k]) + SumCard(m, ks \ {k})
EdgeTotal(G) == SumCard(G.neighbors, DOMAIN G.neighbors)

\* A plausible slip: the adjacency entry is (re)created before the
\* membership test, dropping the edges already leaving the node.
addNodeReset(G, add) ==
    Effect(Graph(G.nodes \cup {add}, Put(G.neighbors, add, {})),
           Bool(add \notin G.nodes), <<>>)

\* A plausible slip: the node is added to the node set and the adjacency
\* entry is forgotten.
addNodeNoEntry(G, add) ==
    IF add \in G.nodes
    THEN Effect(G, "false", <<>>)
    ELSE Effect(Graph(G.nodes \cup {add}, G.neighbors), "true", <<>>)

addNode(G, add) ==
    IF add \in G.nodes
    THEN Effect(G, "false", <<>>)
    ELSE Effect(Graph(G.nodes \cup {add}, Put(G.neighbors, add, {})),
                "true", <<>>)

\* A plausible slip: only the parent node is checked for membership.
addEdgeFromOnly(G, from, to, label) ==
    IF from \notin DOMAIN G.neighbors
    THEN Effect(G, "InvalidArgument", <<>>)
    ELSE LET edge == LabeledEdge(from, to, label)
         IN IF edge \notin G.neighbors[from]
            THEN Effect(Graph(G.nodes,
                         [G.neighbors EXCEPT ![from] = @ \cup {edge}]),
                        "true", <<>>)
            ELSE Effect(G, "false", <<>>)

\* A plausible slip: the graph is treated as undirected and the reverse
\* edge is stored as well.
addEdgeBoth(G, from, to, label) ==
    IF from \notin DOMAIN G.neighbors \/ to \notin DOMAIN G.neighbors
    THEN Effect(G, "InvalidArgument", <<>>)
    ELSE LET edge == LabeledEdge(from, to, label)
             back == LabeledEdge(to, from, label)
         IN IF edge \notin G.neighbors[from]
            THEN Effect(Graph(G.nodes,
                         [n \in DOMAIN G.neighbors |->
                            G.neighbors[n]
                              \cup (IF n = from THEN {edge} ELSE {})
                              \cup (IF n = to THEN {back} ELSE {})]),
                        "true", <<>>)
            ELSE Effect(G, "false", <<>>)

addEdge(G, from, to, label) ==
    IF from \notin DOMAIN G.neighbors \/ to \notin DOMAIN G.neighbors
    THEN Effect(G, "InvalidArgument", <<>>)
    ELSE LET edge == LabeledEdge(from, to, label)
         IN IF edge \notin G.neighbors[from]
            THEN Effect(Graph(G.nodes,
                         [G.neighbors EXCEPT ![from] = @ \cup {edge}]),
                        "true", <<>>)
            ELSE Effect(G, "false", <<>>)

\* A plausible slip: every edge between the two nodes is dropped, whatever
\* its label.
removeEdgeAnyLabel(G, from, to, label) ==
    IF from \notin DOMAIN G.neighbors \/ to \notin DOMAIN G.neighbors
    THEN Effect(G, "InvalidArgument", <<>>)
    ELSE LET edge == LabeledEdge(from, to, label)
         IN IF edge \notin G.neighbors[from]
            THEN Effect(G, "null", <<>>)
            ELSE Effect(Graph(G.nodes,
                         [G.neighbors EXCEPT
                            ![from] = {e \in @ : e.to # to}]),
                        "edge", <<edge>>)

removeEdge(G, from, to, label) ==
    IF from \notin DOMAIN G.neighbors \/ to \notin DOMAIN G.neighbors
    THEN Effect(G, "InvalidArgument", <<>>)
    ELSE LET edge == LabeledEdge(from, to, label)
         IN IF edge \notin G.neighbors[from]
            THEN Effect(G, "null", <<>>)
            ELSE Effect(Graph(G.nodes,
                         [G.neighbors EXCEPT ![from] = @ \ {edge}]),
                        "edge", <<edge>>)

\* listEdgesOut(node): the live edge set, or IllegalArgumentException.
listEdgesOut(G, node) ==
    IF node \notin DOMAIN G.neighbors
    THEN Effect(G, "InvalidArgument", <<>>)
    ELSE Effect(G, "edges", <<G.neighbors[node]>>)

\* A plausible slip: the loop counts every edge leaving n1, whatever its
\* destination.
numEdgesOut(G, n1, n2, ea) ==
    IF ea /\ (n1 \notin DOMAIN G.neighbors \/ n2 \notin DOMAIN G.neighbors)
    THEN Effect(G, "AssertionError", <<>>)
    ELSE IF n1 \notin DOMAIN G.neighbors
    THEN Effect(G, "NullPointerException", <<>>)
    ELSE Effect(G, "count", <<Cardinality(G.neighbors[n1])>>)

\* numEdges(n1, n2).  Membership of n1 and n2 is tested by assert
\* statements only: with assertions enabled (ea) an absent node raises
\* AssertionError; with assertions disabled an absent n1 makes
\* neighbors.get(n1) null and the for loop raises NullPointerException,
\* and an absent n2 is simply counted (no stored edge leads to it).
numEdges(G, n1, n2, ea) ==
    IF ea /\ (n1 \notin DOMAIN G.neighbors \/ n2 \notin DOMAIN G.neighbors)
    THEN Effect(G, "AssertionError", <<>>)
    ELSE IF n1 \notin DOMAIN G.neighbors
    THEN Effect(G, "NullPointerException", <<>>)
    ELSE Effect(G, "count",
                <<Cardinality({e \in G.neighbors[n1] : e.to = n2})>>)

\* ------------------------------------------------------------------- Path
\* The immutable Path value: a start node, the segments in traversal order
\* and the accumulated cost.
Segment(s, e, c) == [start |-> s, end |-> e, cost |-> c]

\* new Path<>(start): zero segments, cost 0.
NewPath(start) == [start |-> start, segs |-> <<>>, cost |-> 0]

getEnd(p) == IF p.segs = <<>> THEN p.start ELSE p.segs[Len(p.segs)].end

getCost(p) == p.cost

\* A plausible slip: the new segment is appended and the cost is carried
\* over as it was.
extendNoCost(p, n, w) ==
    [start |-> p.start,
     segs  |-> Append(p.segs, Segment(getEnd(p), n, w)),
     cost  |-> p.cost]

\* p.extend(n, w): a new Path, p's segments plus (p.end -> n, w).
extend(p, n, w) ==
    [start |-> p.start,
     segs  |-> Append(p.segs, Segment(getEnd(p), n, w)),
     cost  |-> p.cost + w]

\* ----------------------------------------------------- ShortestPathFinder
\* The solver's loop state: the fringe (the PriorityQueue's contents), the
\* finished set, and the outcome once the method has returned.  The heap
\* order among equal-cost paths and the HashSet iteration order of the
\* edges are left open: poll() may hand out any minimum-cost element.
NoResult == [out |-> "none", val |-> <<>>]
NullResult == [out |-> "null", val |-> <<>>]
PathResult(p) == [out |-> "path", val |-> <<p>>]
ThrowResult == [out |-> "InvalidArgument", val |-> <<>>]

\* The locals before the loop: the fringe holds new Path<>(start).
SolverInit(start) ==
    [fringe |-> {NewPath(start)}, finished |-> {}, pc |-> "loop",
     result |-> NoResult]

\* The locals while no solver run is modelled.
SolverIdle == [fringe |-> {}, finished |-> {}, pc |-> "idle",
               result |-> NoResult]

\* A queue that ignores the comparator: any element may be polled.
MinPathsAny(fringe) == fringe

\* A plausible slip: the queue orders paths by their number of segments.
MinPathsByLength(fringe) ==
    {p \in fringe : \A q \in fringe : Len(p.segs) <= Len(q.segs)}

\* fringe.poll() under Comparator.comparingDouble(Path::getCost): the
\* elements poll() can return.
MinPaths(fringe) ==
    {p \in fringe : \A q \in fringe : getCost(p) <= getCost(q)}

\* A plausible slip: extend appends to the list of the path it is called
\* on, so that each extension of the popped path carries the segments of
\* the extensions made before it.
RECURSIVE ExtendInPlace(_, _)
ExtendInPlace(p, es) ==
    IF es = {} THEN {}
    ELSE LET e == CHOOSE x \in es : TRUE
             q == extend(p, e.to, e.label)
         IN {q} \cup ExtendInPlace(q, es \ {e})

PushedShared(G, finished, minPath) ==
    ExtendInPlace(minPath,
                  {x \in listEdgesOut(G, getEnd(minPath)).val[1] :
                      x.to \notin finished})

\* A plausible slip: the test on the child is left out, every outgoing edge
\* gives a pushed path.
PushedAll(G, finished, minPath) ==
    {extend(minPath, e.to, e.label) :
        e \in listEdgesOut(G, getEnd(minPath)).val[1]}

\* A plausible slip: every edge is taken to cost 1, the label is not read.
PushedUnitCost(G, finished, minPath) ==
    {extend(minPath, e.to, 1) :
        e \in {x \in listEdgesOut(G, getEnd(minPath)).val[1] :
                  x.to \notin finished}}

\* The paths pushed when minPath is expanded: one per outgoing edge whose
\* child is not finished.
Pushed(G, finished, minPath) ==
    {extend(minPath, e.to, e.label) :
        e \in {x \in listEdgesOut(G, getEnd(minPath)).val[1] :
                  x.to \notin finished}}

\* A plausible slip: leaving the loop (break) instead of skipping the
\* popped path (continue) when its end is already finished.
PollBreak(G, end, st, minPath) ==
    LET rest == st.fringe \ {minPath}
        minDest == getEnd(minPath)
    IN IF minDest = end
       THEN [st EXCEPT !.fringe = rest, !.pc = "done",
                       !.result = PathResult(minPath)]
       ELSE IF minDest \in st.finished
       THEN [st EXCEPT !.fringe = rest, !.pc = "done", !.result = NullResult]
       ELSE IF listEdgesOut(G, minDest).out = "InvalidArgument"
       THEN [st EXCEPT !.fringe = rest, !.pc = "done", !.result = ThrowResult]
       ELSE [st EXCEPT !.fringe = rest \cup Pushed(G, st.finished, minPath),
                       !.finished = @ \cup {minDest}]

\* A plausible slip: the start node itself is never taken for the end, so
\* that a query from a node to itself looks for a cycle.
PollSkipStart(G, end, st, minPath) ==
    LET rest == st.fringe \ {minPath}
        minDest == getEnd(minPath)
    IN IF minDest = end /\ minPath.segs # <<>>
       THEN [st EXCEPT !.fringe = rest, !.pc = "done",
                       !.result = PathResult(minPath)]
       ELSE IF minDest \in st.finished
       THEN [st EXCEPT !.fringe = rest]
       ELSE IF listEdgesOut(G, minDest).out = "InvalidArgument"
       THEN [st EXCEPT !.fringe = rest, !.pc = "done", !.result = ThrowResult]
       ELSE [st EXCEPT !.fringe = rest \cup Pushed(G, st.finished, minPath),
                       !.finished = @ \cup {minDest}]

\* A plausible slip: peek() for poll(), the element read stays in the queue.
PollPeek(G, end, st, minPath) ==
    LET minDest == getEnd(minPath)
    IN IF minDest = end
       THEN [st EXCEPT !.pc = "done", !.result = PathResult(minPath)]
       ELSE IF minDest \in st.finished
       THEN st
       ELSE IF listEdgesOut(G, minDest).out = "InvalidArgument"
       THEN [st EXCEPT !.pc = "done", !.result = ThrowResult]
       ELSE [st EXCEPT !.fringe = @ \cup Pushed(G, st.finished, minPath),
                       !.finished = @ \cup {minDest}]

\* One iteration of the while loop, minPath being the polled element.
Poll(G, end, st, minPath) ==
    LET rest == st.fringe \ {minPath}
        minDest == getEnd(minPath)
    IN IF minDest = end
       THEN [st EXCEPT !.fringe = rest, !.pc = "done",
                       !.result = PathResult(minPath)]
       ELSE IF minDest \in st.finished
       THEN [st EXCEPT !.fringe = rest]
       ELSE IF listEdgesOut(G, minDest).out = "InvalidArgument"
       THEN [st EXCEPT !.fringe = rest, !.pc = "done", !.result = ThrowResult]
       ELSE [st EXCEPT !.fringe = rest \cup Pushed(G, st.finished, minPath),
                       !.finished = @ \cup {minDest}]

\* The loop test failing: return null.
Exhausted(st) == [st EXCEPT !.pc = "done", !.result = NullResult]

\* The loop states one step after st.
SolverNext(G, end, st) ==
    IF st.fringe = {}
    THEN {Exhausted(st)}
    ELSE {Poll(G, end, st, p) : p \in MinPaths(st.fringe)}

RECURSIVE SolverRun(_, _, _)
SolverRun(G, end, st) ==
    IF st.pc = "done" THEN {st.result}
    ELSE UNION {SolverRun(G, end, s2) : s2 \in SolverNext(G, end, st)}

\* The outcomes shortestPathSolver(graph, start, end) can have.
shortestPathSolver(G, start, end) == SolverRun(G, end, SolverInit(start))

\* ------------------------------------------------- the calls' bookkeeping
\* The outcome of the last call: the operation, what it returned or threw
\* ("true", "false", "null", "edge", "edges", "path", "InvalidArgument"),
\* the value, and whether findShortestPath answered
\* from its cache.
Ret(op, out, val) == [op |-> op, out |-> out, val |-> val, hit |-> FALSE]
RetHit(op, out, val) == [op |-> op, out |-> out, val |-> val, hit |-> TRUE]
NoRet == Ret("none", "none", <<>>)

CurGraph == Graph(nodes, neighbors)

\* A LabeledGraph call takes effect on the object's fields.
Apply(op, eff) ==
    /\ nodes' = eff.graph.nodes
    /\ neighbors' = eff.graph.neighbors
    /\ ret' = Ret(op, eff.out, eff.val)

\* ------------------------------------------- Spec: LabeledGraph's clients
AddNodeCall(n) ==
    /\ Apply("addNode", addNode(CurGraph, n))
    /\ UNCHANGED <<solverVars, mapVars>>

\* EdgeTotal <= MaxStored is the model's bound on the graph's size.
AddEdgeCall(a, b, l) ==
    LET eff == addEdge(CurGraph, a, b, l)
    IN /\ EdgeTotal(eff.graph) <= MaxStored
       /\ Apply("addEdge", eff)
       /\ UNCHANGED <<solverVars, mapVars>>

RemoveEdgeCall(a, b, l) ==
    /\ Apply("removeEdge", removeEdge(CurGraph, a, b, l))
    /\ UNCHANGED <<solverVars, mapVars>>

ListEdgesOutCall(n) ==
    /\ Apply("listEdgesOut", listEdgesOut(CurGraph, n))
    /\ UNCHANGED <<solverVars, mapVars>>

\* ea: whether the JVM runs with assertions enabled (-ea).
NumEdgesCall(n1, n2, ea) ==
    /\ Apply("numEdges", numEdges(CurGraph, n1, n2, ea))
    /\ UNCHANGED <<solverVars, mapVars>>

NoQuery == [start |-> "", end |-> ""]

\* No /path request answered yet; no request thread inside a call.
NoResponse == [status |-> 0, path |-> <<>>]
Thread == {1, 2}
IdleThread == [pc |-> "idle", names |-> <<>>, result |-> NoResult,
               overlap |-> FALSE, lost |-> FALSE, calls |-> 0]
NoThreads == [t \in Thread |-> IdleThread]

\* The fields of a CampusMap before its constructor has run.
MapBlank ==
    /\ pc = "none"
    /\ buildings = {}
    /\ pointToBuildings = EmptyMap
    /\ shortNameToPoint = EmptyMap
    /\ shortestPathMap = EmptyMap
    /\ solverCalls = EmptyMap
    /\ returned = EmptyMap
    /\ response = NoResponse
    /\ threads = NoThreads

\* new LabeledGraph<>(): no nodes, no edges.
Init ==
    /\ nodes = {}
    /\ neighbors = EmptyMap
    /\ ret = NoRet
    /\ solver = SolverIdle
    /\ query = NoQuery
    /\ pushes = 0
    /\ MapBlank

AddNode == \E n \in Node : AddNodeCall(n)
AddEdge == \E a \in Node, b \in Node, l \in Weight : AddEdgeCall(a, b, l)
RemoveEdge ==
    \E a \in Node, b \in Node, l \in Weight : RemoveEdgeCall(a, b, l)
ListEdgesOut == \E n \in Node : ListEdgesOutCall(n)

NumEdges ==
    \E n1 \in Node, n2 \in Node, ea \in BOOLEAN : NumEdgesCall(n1, n2, ea)

Next == AddNode \/ AddEdge \/ RemoveEdge \/ ListEdgesOut \/ NumEdges

Spec == Init /\ [][Next]_vars

\* ------------------------------------------- SpecEdge: LabeledEdge's order
\* Object.hashCode() of a node.  hashCode is not injective: here the nodes A
\* and C share a hash code and B has another.
NodeHash(n) == IF n = "B" THEN 2 ELSE 1

\* Integer.compare and Double.compareTo, as the sign of the difference.
Compare(x, y) == IF x < y THEN "less" ELSE IF x = y THEN "zero" ELSE "greater"

\* LabeledEdge.equals: label, from and to all equal.
edgeEquals(this, o) ==
    o.label = this.label /\ o.from = this.from /\ o.to = this.to

\* LabeledEdge.compareTo
edgeCompareTo(this, o) ==
    IF edgeEquals(this, o) THEN "zero"
    ELSE IF this.to = o.to THEN Compare(this.label, o.label)
    ELSE Compare(NodeHash(this.to), NodeHash(o.to))

AllEdges == {LabeledEdge(a, b, l) : a \in Node, b \in Node, l \in Label}

EdgeEqualsCall(this, o) ==
    /\ ret' = Ret("equals", Bool(edgeEquals(this, o)), <<this, o>>)
    /\ UNCHANGED <<graphVars, solverVars, mapVars>>

EdgeCompareToCall(this, o) ==
    /\ ret' = Ret("compareTo", edgeCompareTo(this, o), <<this, o>>)
    /\ UNCHANGED <<graphVars, solverVars, mapVars>>

EdgeEquals == \E this \in AllEdges, o \in AllEdges : EdgeEqualsCall(this, o)
EdgeCompareTo ==
    \E this \in AllEdges, o \in AllEdges : EdgeCompareToCall(this, o)

EdgeNext == EdgeEquals \/ EdgeCompareTo

SpecEdge == Init /\ [][EdgeNext]_vars

\* ------------------------------------- SpecSolver: one shortestPathSolver run
\* The sets of at most k elements of S.
RECURSIVE SubsetsUpTo(_, _)
SubsetsUpTo(S, k) ==
    IF k = 0 THEN {{}}
    ELSE LET T == SubsetsUpTo(S, k - 1)
         IN T \cup {t \cup {e} : t \in T, e \in S}

\* Every graph addNode and addEdge can build on the node set ns with at most
\* MaxEdges edges.
GraphsOn(ns) ==
    {Graph(ns, [n \in ns |-> {e \in E : e.from = n}]) :
        E \in SubsetsUpTo({LabeledEdge(a, b, l) :
                              a \in ns, b \in ns, l \in Label}, MaxEdges)}

SolverSpecInit ==
    /\ \E ns \in (SUBSET Node) \ {{}} :
         \E G \in GraphsOn(ns) :
           /\ nodes = G.nodes
           /\ neighbors = G.neighbors
    /\ \E s \in nodes, e \in nodes :
           /\ query = [start |-> s, end |-> e]
           /\ solver = SolverInit(s)
    /\ pushes = 1
    /\ ret = NoRet
    /\ MapBlank

\* The polled path ends at end: return it.
SolverReturn ==
    /\ solver.pc = "loop"
    /\ \E p \in MinPaths(solver.fringe) :
          /\ getEnd(p) = query.end
          /\ solver' = Poll(CurGraph, query.end, solver, p)
    /\ UNCHANGED <<graphVars, ret, query, pushes, mapVars>>

\* The polled path ends at a finished node: continue.
SolverDiscard ==
    /\ solver.pc = "loop"
    /\ \E p \in MinPaths(solver.fringe) :
          /\ getEnd(p) # query.end
          /\ getEnd(p) \in solver.finished
          /\ solver' = Poll(CurGraph, query.end, solver, p)
    /\ UNCHANGED <<graphVars, ret, query, pushes, mapVars>>

\* The polled path ends at a new node: push its extensions, finish the node.
SolverExpand ==
    /\ solver.pc = "loop"
    /\ \E p \in MinPaths(solver.fringe) :
          /\ getEnd(p) # query.end
          /\ getEnd(p) \notin solver.finished
          /\ solver' = Poll(CurGraph, query.end, solver, p)
          /\ pushes' = pushes + Cardinality(solver'.fringe \ solver.fringe)
    /\ UNCHANGED <<graphVars, ret, query, mapVars>>

\* The fringe is empty: return null.
SolverExhausted ==
    /\ solver.pc = "loop"
    /\ solver.fringe = {}
    /\ solver' = Exhausted(solver)
    /\ UNCHANGED <<graphVars, ret, query, pushes, mapVars>>

SolverSpecNext ==
    SolverReturn \/ SolverDiscard \/ SolverExpand \/ SolverExhausted

SpecSolver == SolverSpecInit /\ [][SolverSpecNext]_vars

\* The method runs on one thread with nothing to wait for: while an
\* iteration or the return is possible, it is taken.
SpecSolverFair == SpecSolver /\ WF_vars(SolverSpecNext)

\* ------------------------------------------------ what a route is (reference)
\* Independent of the solver: the routes of at most k edges leaving start,
\* as sequences of stored edges, each starting where the previous one ends.
EdgesFrom(G, n) == IF n \in DOMAIN G.neighbors THEN G.neighbors[n] ELSE {}
RouteEnd(start, r) == IF r = <<>> THEN start ELSE r[Len(r)].to

RECURSIVE Routes(_, _, _)
Routes(G, start, k) ==
    IF k = 0 THEN {<<>>}
    ELSE LET R == Routes(G, start, k - 1)
         IN R \cup UNION {{Append(r, e) : e \in EdgesFrom(G, RouteEnd(start, r))}
                             : r \in R}

RECURSIVE RouteCost(_)
RouteCost(r) == IF r = <<>> THEN 0 ELSE r[1].label + RouteCost(Tail(r))

\* With no negative weight a cheapest route repeats no node, so routes of at
\* most |nodes| edges include one.
RoutesTo(G, start, end) ==
    {r \in Routes(G, start, Cardinality(G.nodes)) : RouteEnd(start, r) = end}

IsMinCost(G, start, end, c) ==
    /\ \E r \in RoutesTo(G, start, end) : RouteCost(r) = c
    /\ \A r \in RoutesTo(G, start, end) : RouteCost(r) >= c

\* The nodes reachable from the set S along stored edges.
RECURSIVE Reach(_, _)
Reach(G, S) ==
    LET S2 == S \cup {e.to : e \in UNION {EdgesFrom(G, n) : n \in S}}
    IN IF S2 = S THEN S ELSE Reach(G, S2)

Reachable(G, start, end) == end \in Reach(G, {start})

\* No edge enters or leaves n.
Isolated(G, n) ==
    \A m \in DOMAIN G.neighbors :
        \A e \in G.neighbors[m] : e.from # n /\ e.to # n

\* ----------------------------------------------------------------- CampusMap
\* The short names the building records carry, and the names a client may
\* pass to a query: registered or not, the empty string, and null.
ShortNames == {"a", "b"}
\* The long name the data gives each short name.
LongNameOf(sn) == IF sn = "a" THEN "Hall One" ELSE "Hall Two"
NullName == "\\null"
QueryNames == ShortNames \cup {"zz", "", NullName}
\* Map.get of an absent key.
NullPoint == "\\null"

\* A parsed building record; its coordinates are the Point it stands at.
CampusBuilding(shortName, longName, point) ==
    [shortName |-> shortName, longName |-> longName, point |-> point]
\* A parsed path record: the two end Points and the distance.
CampusPath(p1, p2, distance) == [p1 |-> p1, p2 |-> p2, distance |-> distance]

BuildingRecords ==
    {CampusBuilding(sn, LongNameOf(sn), p) : sn \in ShortNames, p \in Node}
PathRecords == {CampusPath(p1, p2, d) : p1 \in Node, p2 \in Node, d \in Weight}

\* Map.get(k): the value, or null for an absent key.
GetPoint(m, k) == IF k \in DOMAIN m THEN m[k] ELSE NullPoint

\* shortNameExists(shortName)
shortNameExists(shortName) == shortName \in DOMAIN shortNameToPoint

\* A plausible slip: the building is looked up by the Point alone, taking
\* the first registered Point for every short name.
longNameForShortFirst(shortName) ==
    IF ~shortNameExists(shortName)
    THEN Ret("longNameForShort", "InvalidArgument", <<>>)
    ELSE Ret("longNameForShort", "name",
             <<pointToBuildings[CHOOSE pt \in DOMAIN pointToBuildings :
                                   TRUE].longName>>)

\* longNameForShort(shortName): IllegalArgumentException for a name that is
\* not registered, else the long name of the record stored at the name's
\* Point.
longNameForShort(shortName) ==
    IF ~shortNameExists(shortName)
    THEN Ret("longNameForShort", "InvalidArgument", <<>>)
    ELSE Ret("longNameForShort", "name",
             <<pointToBuildings[shortNameToPoint[shortName]].longName>>)

\* A plausible slip: equals() and hashCode() that ignore which name is the
\* start, so that (B,A) meets the entry of (A,B).
ShortestPathPairUnordered(x, y) == IF y = "a" THEN <<y, x>> ELSE <<x, y>>

\* new ShortestPathPair<>(x, y): equals() compares start with start and end
\* with end, so the key is the ordered pair.
ShortestPathPair(x, y) == <<x, y>>

\* A plausible slip: only the start name is validated.
ValidNamesStartOnly(startShortName, endShortName) ==
    startShortName # NullName /\ shortNameExists(startShortName)

\* The guard of findShortestPath: neither name null, both registered.
ValidNames(startShortName, endShortName) ==
    /\ startShortName # NullName
    /\ endShortName # NullName
    /\ shortNameExists(startShortName)
    /\ shortNameExists(endShortName)

\* A plausible slip: get(key) != null as the hit test, which takes a cached
\* null for a miss.
CacheHitNonNull(cache, key) == key \in DOMAIN cache /\ cache[key].out # "null"

\* shortestPathMap.containsKey(startEndPair)
CacheHit(cache, key) == key \in DOMAIN cache

\* A plausible slip: the result is returned without being stored.
CacheStoreNothing(cache, key, result) == cache

\* A plausible slip: a cache of one entry, the newest evicting the others.
CacheStoreLatest(cache, key, result) == Put(EmptyMap, key, result)

\* A plausible slip: the pair is built end first when the result is stored.
CacheStoreSwapped(cache, key, result) == Put(cache, <<key[2], key[1]>>, result)

\* shortestPathMap.put(startEndPair, shortestPath)
CacheStore(cache, key, result) == Put(cache, key, result)

\* History: one more solver invocation for key, counted up to MaxCalls.
CountCall(calls, key) ==
    Put(calls, key,
        IF key \in DOMAIN calls
        THEN (IF calls[key] < MaxCalls THEN calls[key] + 1 ELSE MaxCalls)
        ELSE 1)
\* History: result was returned for key.
NoteReturn(rets, key, result) ==
    Put(rets, key, (IF key \in DOMAIN rets THEN rets[key] ELSE {}) \cup {result})

findShortestPath(startShortName, endShortName) ==
    IF ~ValidNames(startShortName, endShortName)
    THEN /\ ret' = Ret("findShortestPath", "InvalidArgument", <<>>)
         /\ UNCHANGED <<shortestPathMap, solverCalls, returned>>
    ELSE LET startEndPair == ShortestPathPair(startShortName, endShortName)
             names == <<startShortName, endShortName>>
         IN IF CacheHit(shortestPathMap, startEndPair)
            THEN LET hit == shortestPathMap[startEndPair]
                 IN /\ ret' = RetHit("findShortestPath", hit.out, hit.val)
                    /\ returned' = NoteReturn(returned, names, hit)
                    /\ UNCHANGED <<shortestPathMap, solverCalls>>
            ELSE LET start == GetPoint(shortNameToPoint, startShortName)
                     end == GetPoint(shortNameToPoint, endShortName)
                 IN \E shortestPath \in shortestPathSolver(CurGraph, start, end) :
                      /\ solverCalls' = CountCall(solverCalls, names)
                      /\ IF shortestPath.out = "InvalidArgument"
                         THEN /\ ret' = Ret("findShortestPath",
                                            "InvalidArgument", <<>>)
                              /\ UNCHANGED <<shortestPathMap, returned>>
                         ELSE /\ shortestPathMap' =
                                   CacheStore(shortestPathMap, startEndPair,
                                              shortestPath)
                              /\ returned' =
                                   NoteReturn(returned, names, shortestPath)
                              /\ ret' = Ret("findShortestPath",
                                            shortestPath.out, shortestPath.val)

\* ------------------------------------------------- SpecMap: a CampusMap
\* The constructor's first statements: empty graph, empty maps.
MapInit ==
    /\ nodes = {}
    /\ neighbors = EmptyMap
    /\ ret = NoRet
    /\ solver = SolverIdle
    /\ query = NoQuery
    /\ pushes = 0
    /\ pc = "buildings"
    /\ buildings = {}
    /\ pointToBuildings = EmptyMap
    /\ shortNameToPoint = EmptyMap
    /\ shortestPathMap = EmptyMap
    /\ solverCalls = EmptyMap
    /\ returned = EmptyMap
    /\ response = NoResponse
    /\ threads = NoThreads

\* A plausible slip: the building is entered in the two indices and its
\* Point is not added to the graph.
ConstructBuildingNoNode(b) ==
    /\ pc = "buildings"
    /\ Cardinality(buildings \cup {b}) <= MaxBuildings
    /\ buildings' = buildings \cup {b}
    /\ pointToBuildings' = Put(pointToBuildings, b.point, b)
    /\ shortNameToPoint' = Put(shortNameToPoint, b.shortName, b.point)
    /\ UNCHANGED <<graphVars, ret, solverVars, pc, shortestPathMap,
                   solverCalls, returned, serverVars>>

\* One iteration of the constructor's loop over the building records.
ConstructBuilding(b) ==
    /\ pc = "buildings"
    /\ Cardinality(buildings \cup {b}) <= MaxBuildings
    /\ buildings' = buildings \cup {b}
    /\ pointToBuildings' = Put(pointToBuildings, b.point, b)
    /\ shortNameToPoint' = Put(shortNameToPoint, b.shortName, b.point)
    /\ LET eff == addNode(CurGraph, b.point)
       IN /\ nodes' = eff.graph.nodes
          /\ neighbors' = eff.graph.neighbors
    /\ UNCHANGED <<ret, solverVars, pc, shortestPathMap, solverCalls, returned,
                   serverVars>>

\* The building records are exhausted.
BuildingsDone ==
    /\ pc = "buildings"
    /\ pc' = "paths"
    /\ UNCHANGED <<graphVars, ret, solverVars, buildings, pointToBuildings,
                   shortNameToPoint, shortestPathMap, solverCalls, returned,
                   serverVars>>

\* A plausible slip: the path record is taken for a two-way segment and the
\* reverse edge is added with it.
ConstructPathBothWays(path) ==
    /\ pc = "paths"
    /\ LET G1 == addNode(CurGraph, path.p1).graph
           G2 == addNode(G1, path.p2).graph
           G3 == addEdge(G2, path.p1, path.p2, path.distance).graph
           G4 == addEdge(G3, path.p2, path.p1, path.distance).graph
       IN /\ EdgeTotal(G3) <= MaxPaths
          /\ nodes' = G4.nodes
          /\ neighbors' = G4.neighbors
    /\ UNCHANGED <<ret, solverVars, mapVars>>

\* One iteration of the constructor's loop over the path records: both end
\* points become nodes, then one edge start -> end is added.
ConstructPath(path) ==
    /\ pc = "paths"
    /\ LET G1 == addNode(CurGraph, path.p1).graph
           G2 == addNode(G1, path.p2).graph
           G3 == addEdge(G2, path.p1, path.p2, path.distance).graph
       IN /\ EdgeTotal(G3) <= MaxPaths
          /\ nodes' = G3.nodes
          /\ neighbors' = G3.neighbors
    /\ UNCHANGED <<ret, solverVars, mapVars>>

\* A plausible slip: the constructor returns without its closing checkRep().
ConstructDoneUnchecked ==
    /\ pc = "paths"
    /\ pc' = "ready"
    /\ UNCHANGED <<graphVars, ret, solverVars, buildings, pointToBuildings,
                   shortNameToPoint, shortestPathMap, solverCalls, returned,
                   serverVars>>

\* The constructor's closing checkRep(): it throws when the two indices
\* differ in size, and then no CampusMap exists.
ConstructDone ==
    /\ pc = "paths"
    /\ pc' = IF Cardinality(DOMAIN shortNameToPoint)
                  # Cardinality(DOMAIN pointToBuildings)
             THEN "failed" ELSE "ready"
    /\ UNCHANGED <<graphVars, ret, solverVars, buildings, pointToBuildings,
                   shortNameToPoint, shortestPathMap, solverCalls, returned,
                   serverVars>>

FindShortestPathCall(s, e) ==
    /\ pc = "ready"
    /\ findShortestPath(s, e)
    /\ UNCHANGED <<graphVars, solverVars, pc, buildings, pointToBuildings,
                   shortNameToPoint, serverVars>>

LongNameForShortCall(sn) ==
    /\ pc = "ready"
    /\ ret' = longNameForShort(sn)
    /\ UNCHANGED <<graphVars, solverVars, mapVars>>

\* A plausible slip: the lookup goes through computeIfAbsent and leaves an
\* entry behind for a name that was not registered.
ShortNameExistsCallPut(sn) ==
    /\ pc = "ready"
    /\ ret' = Ret("shortNameExists", Bool(shortNameExists(sn)), <<>>)
    /\ shortNameToPoint' =
          IF shortNameExists(sn) THEN shortNameToPoint
          ELSE Put(shortNameToPoint, sn, NullPoint)
    /\ UNCHANGED <<graphVars, solverVars, pc, buildings, pointToBuildings,
                   shortestPathMap, solverCalls, returned, serverVars>>

ShortNameExistsCall(sn) ==
    /\ pc = "ready"
    /\ ret' = Ret("shortNameExists", Bool(shortNameExists(sn)), <<>>)
    /\ UNCHANGED <<graphVars, solverVars, mapVars>>

\* buildingNames(): a new map from every registered short name to the long
\* name longNameForShort gives for it.
buildingNames ==
    [sn \in DOMAIN shortNameToPoint |-> longNameForShort(sn).val[1]]

BuildingNamesCall ==
    /\ pc = "ready"
    /\ ret' = Ret("buildingNames", "names", <<buildingNames>>)
    /\ UNCHANGED <<graphVars, solverVars, mapVars>>

\* buildingsList(): a copy of the set of building records.
BuildingsListCall ==
    /\ pc = "ready"
    /\ ret' = Ret("buildingsList", "buildings", <<buildings>>)
    /\ UNCHANGED <<graphVars, solverVars, mapVars>>

Construct1 == \E b \in BuildingRecords : ConstructBuilding(b)
Construct2 == \E p \in PathRecords : ConstructPath(p)
FindShortestPath ==
    \E s \in QueryNames, e \in QueryNames : FindShortestPathCall(s, e)

LongNameForShort == \E sn \in QueryNames : LongNameForShortCall(sn)
ShortNameExists == \E sn \in QueryNames : ShortNameExistsCall(sn)

MapNext ==
    \/ Construct1
    \/ BuildingsDone
    \/ Construct2
    \/ ConstructDone
    \/ FindShortestPath
    \/ LongNameForShort
    \/ ShortNameExists
    \/ BuildingNamesCall
    \/ BuildingsListCall

SpecMap == MapInit /\ [][MapNext]_vars

\* ------------------------------------------ SpecServer: the /path handler
\* new Point(-1, -1): a Point like any other; here it is the Point C.
SentinelPoint == "C"

\* A plausible slip: only the start parameter is validated.
RejectStatusStartOnly(start, end) ==
    IF start = NullName THEN 500
    ELSE IF start = "" /\ end = NullName THEN 500
    ELSE IF start = "" /\ end = "" THEN 418
    ELSE IF start = "" \/ ~shortNameExists(start) THEN 400
    ELSE 0

\* The handler's checks before the query: the status it rejects the request
\* with, or 0 when the request goes on to findShortestPath.  A missing
\* parameter is null, and isEmpty() on it raises NullPointerException,
\* which the server answers with 500.
RejectStatus(start, end) ==
    IF start = NullName THEN 500
    ELSE IF start = "" /\ end = NullName THEN 500
    ELSE IF start = "" /\ end = "" THEN 418
    ELSE IF start = "" \/ ~shortNameExists(start) THEN 400
    ELSE IF end = NullName THEN 500
    ELSE IF end = "" \/ ~shortNameExists(end) THEN 400
    ELSE 0

\* The body built from what findShortestPath returned: the path, or the
\* one-point path at (-1, -1) for null; 500 when the call threw.
PathResponse(r) ==
    IF r.out = "null" THEN [status |-> 200, path |-> <<NewPath(SentinelPoint)>>]
    ELSE IF r.out = "path" THEN [status |-> 200, path |-> r.val]
    ELSE [status |-> 500, path |-> <<>>]

\* Spark.post("/path", ...)
PathRequestCall(start, end) ==
    /\ pc = "ready"
    /\ IF RejectStatus(start, end) # 0
       THEN /\ response' = [status |-> RejectStatus(start, end), path |-> <<>>]
            /\ UNCHANGED <<ret, shortestPathMap, solverCalls, returned>>
       ELSE /\ findShortestPath(start, end)
            /\ response' = PathResponse(ret')
    /\ UNCHANGED <<graphVars, solverVars, pc, buildings, pointToBuildings,
                   shortNameToPoint, threads>>

PathRequest ==
    \E start \in QueryNames, end \in QueryNames : PathRequestCall(start, end)

ServerNext ==
    \/ Construct1
    \/ BuildingsDone
    \/ Construct2
    \/ ConstructDone
    \/ PathRequest

SpecServer == MapInit /\ [][ServerNext]_vars

\* ------------------- SpecRace: two request threads in findShortestPath
\* Spark serves requests from a thread pool and the CampusMap takes no
\* lock, so two calls can interleave between the statements of
\* findShortestPath.  A solver run reads the graph, which no thread writes
\* after construction, and keeps its fringe and finished set to itself: it
\* is one step, and it is a function of the graph and the two Points (the
\* heap and the edge sets iterate alike over the same unmodified graph).
\* Which of several minimum-cost paths that function returns stays open.
SolverAnswer(G, start, end) ==
    CHOOSE r \in shortestPathSolver(G, start, end) : TRUE

\* A plausible slip: a racing put may be lost whatever became of the other.
RacedPutBothLost(cache, key, result, otherLost) ==
    {Put(cache, key, result), cache}

\* shortestPathMap.put on the unsynchronized HashMap while the other thread
\* is inside put as well: the maps that can result.  The insertion takes
\* effect, or it goes into a table the other thread replaces and is lost;
\* one table survives, so the two insertions are not both lost.
RacedPut(cache, key, result, otherLost) ==
    {Put(cache, key, result)} \cup (IF otherLost THEN {} ELSE {cache})

Other(t) == CHOOSE u \in Thread : u # t

\* Lines 123-130: the argument check and the cache lookup.
ThreadBegin(t, s, e) ==
    /\ pc = "ready"
    /\ threads[t].pc = "idle"
    /\ threads[t].calls < MaxThreadCalls
    /\ IF ~ValidNames(s, e)
       THEN /\ ret' = Ret("findShortestPath", "InvalidArgument", <<>>)
            /\ threads' = [threads EXCEPT ![t].calls = @ + 1]
            /\ UNCHANGED returned
       ELSE IF CacheHit(shortestPathMap, ShortestPathPair(s, e))
       THEN LET hit == shortestPathMap[ShortestPathPair(s, e)]
            IN /\ ret' = RetHit("findShortestPath", hit.out, hit.val)
               /\ returned' = NoteReturn(returned, <<s, e>>, hit)
               /\ threads' = [threads EXCEPT ![t].calls = @ + 1]
       ELSE /\ threads' = [threads EXCEPT ![t] =
                             [IdleThread EXCEPT !.pc = "solve",
                                                !.names = <<s, e>>,
                                                !.calls = threads[t].calls + 1]]
            /\ UNCHANGED <<ret, returned>>
    /\ UNCHANGED <<graphVars, solverVars, pc, buildings, pointToBuildings,
                   shortNameToPoint, shortestPathMap, solverCalls, response>>

\* Lines 131-133: resolve the names and run the solver.
ThreadSolve(t) ==
    /\ threads[t].pc = "solve"
    /\ LET names == threads[t].names
           r == SolverAnswer(CurGraph, GetPoint(shortNameToPoint, names[1]),
                             GetPoint(shortNameToPoint, names[2]))
       IN /\ threads' = [threads EXCEPT ![t].pc = "put", ![t].result = r]
          /\ solverCalls' = CountCall(solverCalls, names)
    /\ UNCHANGED <<graphVars, ret, solverVars, pc, buildings, pointToBuildings,
                   shortNameToPoint, shortestPathMap, returned, response>>

\* Line 134: the thread enters shortestPathMap.put.
ThreadPutEnter(t) ==
    /\ threads[t].pc = "put"
    /\ threads' =
          IF threads[Other(t)].pc = "putting"
          THEN [u \in Thread |->
                  [threads[u] EXCEPT !.overlap = TRUE,
                                     !.pc = IF u = t THEN "putting" ELSE @]]
          ELSE [threads EXCEPT ![t].pc = "putting"]
    /\ UNCHANGED <<graphVars, ret, solverVars, pc, buildings, pointToBuildings,
                   shortNameToPoint, shortestPathMap, solverCalls, returned,
                   response>>

\* Line 134: put returns.
ThreadPutLeave(t) ==
    /\ threads[t].pc = "putting"
    /\ LET key == ShortestPathPair(threads[t].names[1], threads[t].names[2])
           after == IF threads[t].overlap
                    THEN RacedPut(shortestPathMap, key, threads[t].result,
                                  threads[Other(t)].lost)
                    ELSE {CacheStore(shortestPathMap, key, threads[t].result)}
       IN \E m \in after :
             /\ shortestPathMap' = m
             /\ threads' = [threads EXCEPT
                              ![t].pc = "return",
                              ![t].lost = (key \notin DOMAIN m)]
    /\ UNCHANGED <<graphVars, ret, solverVars, pc, buildings, pointToBuildings,
                   shortNameToPoint, solverCalls, returned, response>>

\* Lines 135-136: checkRep and return shortestPath, the thread's local.
ThreadReturn(t) ==
    /\ threads[t].pc = "return"
    /\ ret' = Ret("findShortestPath", threads[t].result.out,
                  threads[t].result.val)
    /\ returned' = NoteReturn(returned, threads[t].names, threads[t].result)
    /\ threads' = [threads EXCEPT
                     ![t] = [IdleThread EXCEPT !.calls = threads[t].calls,
                                               !.lost = threads[t].lost]]
    /\ UNCHANGED <<graphVars, solverVars, pc, buildings, pointToBuildings,
                   shortNameToPoint, shortestPathMap, solverCalls, response>>

ThreadBegins == \E t \in Thread, s \in QueryNames, e \in QueryNames :
                    ThreadBegin(t, s, e)
ThreadSolves == \E t \in Thread : ThreadSolve(t)
ThreadPutEnters == \E t \in Thread : ThreadPutEnter(t)
ThreadPutLeaves == \E t \in Thread : ThreadPutLeave(t)
ThreadReturns == \E t \in Thread : ThreadReturn(t)

RaceNext ==
    \/ Construct1
    \/ BuildingsDone
    \/ Construct2
    \/ ConstructDone
    \/ ThreadBegins
    \/ ThreadSolves
    \/ ThreadPutEnters
    \/ ThreadPutLeaves
    \/ ThreadReturns

SpecRace == MapInit /\ [][RaceNext]_vars

\* --------------------------------------------------------------- claims
\* C1: on a graph with non-negative weights, a path returned by
\* shortestPathSolver(start, end) costs the minimum total weight over all
\* directed routes from start to end.
C1_MinimumCost ==
    (solver.pc = "done" /\ solver.result.out = "path")
        => IsMinCost(CurGraph, query.start, query.end,
                     getCost(solver.result.val[1]))

\* C1 witness: the solver returned a two-segment path although a direct,
\* costlier edge start -> end is stored (the spec's A, B, C scenario).
C1_Witness ==
    /\ solver.pc = "done"
    /\ solver.result.out = "path"
    /\ Len(solver.result.val[1].segs) = 2
    /\ \E e \in neighbors[query.start] :
          /\ e.to = query.end
          /\ e.label > getCost(solver.result.val[1])

\* C2: shortestPathSolver returns null exactly when no directed route leads
\* from start to end; a node without incident edges is unreachable from
\* every other node.
C2_NullIffUnreachable ==
    solver.pc = "done"
        => /\ solver.result.out \in {"path", "null"}
           /\ (solver.result.out = "null")
                 <=> ~Reachable(CurGraph, query.start, query.end)
           /\ (query.start # query.end /\ Isolated(CurGraph, query.end))
                 => solver.result.out = "null"

\* C2 witness: the run ended with null for an end node that has no incident
\* edge, in a graph that has edges.
C2_Witness ==
    /\ solver.pc = "done"
    /\ solver.result.out = "null"
    /\ query.start # query.end
    /\ Isolated(CurGraph, query.end)
    /\ neighbors[query.start] # {}

\* The graph and the indices of the constructed CampusMap.
PointOf(name) == shortNameToPoint[name]
Registered == DOMAIN shortNameToPoint
\* A name findShortestPath must reject: null, empty or not registered.
Invalid(name) == name = NullName \/ name = "" \/ name \notin Registered
\* Some route of at least one edge leads from n back to n.
OnCycle(G, n) == \E e \in EdgesFrom(G, n) : Reachable(G, e.to, n)

\* C3: every call of findShortestPath(A,B) for the same valid names returns
\* the same result, and the solver runs at most once per ordered pair over
\* any sequence of queries: the second call is answered from the cache.
C3_Idempotent ==
    /\ \A k \in DOMAIN returned : Cardinality(returned[k]) = 1
    /\ \A k \in DOMAIN solverCalls : solverCalls[k] <= 1

\* C3 witness: a call was answered from the cache with a path of at least
\* one segment, the solver having run once for that pair.
C3_Witness ==
    /\ ret.op = "findShortestPath"
    /\ ret.hit
    /\ ret.out = "path"
    /\ ret.val[1].segs # <<>>
    /\ \E k \in DOMAIN solverCalls : solverCalls[k] = 1 /\ returned[k] = {[out |-> ret.out, val |-> ret.val]}

\* C4: once findShortestPath has returned "no path" for an ordered pair, the
\* cache holds that null outcome under the pair and the solver has run once
\* for it, however many queries for the pair followed.
C4_NoPathCached ==
    \A k \in DOMAIN returned :
        NullResult \in returned[k]
            => /\ k \in DOMAIN shortestPathMap
               /\ shortestPathMap[k] = NullResult
               /\ returned[k] = {NullResult}
               /\ solverCalls[k] = 1

\* C4 witness: a query was answered "no path" from the cache.
C4_Witness ==
    /\ ret.op = "findShortestPath"
    /\ ret.hit
    /\ ret.out = "null"
    /\ \E k \in DOMAIN shortestPathMap : shortestPathMap[k] = NullResult

\* C5: the cache is keyed by the ordered pair of names: it has an entry for
\* (A,B) exactly when (A,B) itself was queried, and what is cached and
\* returned for (A,B) is a path exactly when A's node reaches B's node, so
\* that (A,B) and (B,A) are answered independently in either query order.
C5_OrderedKey ==
    /\ DOMAIN shortestPathMap = DOMAIN returned
    /\ \A k \in DOMAIN returned :
          /\ returned[k] = {shortestPathMap[k]}
          /\ (shortestPathMap[k].out = "path")
                <=> Reachable(CurGraph, PointOf(k[1]), PointOf(k[2]))
          /\ (shortestPathMap[k].out = "null")
                <=> ~Reachable(CurGraph, PointOf(k[1]), PointOf(k[2]))

\* C5 witness: both (A,B) and (B,A) have been queried, A reaches B and B does
\* not reach A: one entry is a path, the other "no path".
C5_Witness ==
    \E s \in Registered, e \in Registered :
        /\ s # e
        /\ <<s, e>> \in DOMAIN shortestPathMap
        /\ <<e, s>> \in DOMAIN shortestPathMap
        /\ shortestPathMap[<<s, e>>].out = "path"
        /\ shortestPathMap[<<e, s>>].out = "null"

\* C6: a call of findShortestPath with a name that is null, empty or not
\* registered throws InvalidArgument whatever the other name and the cache
\* are; it returns neither a path nor "no path", and stores nothing.
C6_InvalidNameRejected ==
    [][\/ /\ ret'.out = "InvalidArgument"
          /\ shortestPathMap' = shortestPathMap
          /\ solverCalls' = solverCalls
       \/ \A s \in QueryNames, e \in QueryNames :
             (Invalid(s) \/ Invalid(e)) => ~FindShortestPathCall(s, e)]_vars

\* C6 witness: findShortestPath threw InvalidArgument on a map with two
\* registered names and a cache that already holds a path.
C6_Witness ==
    /\ ret.op = "findShortestPath"
    /\ ret.out = "InvalidArgument"
    /\ Cardinality(Registered) = 2
    /\ \E k \in DOMAIN shortestPathMap : shortestPathMap[k].out = "path"

\* C7: for a registered name X, every findShortestPath(X,X) returns the path
\* of zero segments and cost 0 that starts at X's point, also when X's node
\* has outgoing edges or lies on a cycle.
C7_SelfPath ==
    \A x \in Registered :
        <<x, x>> \in DOMAIN returned
            => returned[<<x, x>>] =
                  {[out |-> "path",
                    val |-> <<[start |-> PointOf(x), segs |-> <<>>,
                               cost |-> 0]>>]}

\* C7 witness: findShortestPath(X,X) has returned for an X whose node lies on
\* a cycle.
C7_Witness ==
    \E x \in Registered :
        /\ <<x, x>> \in DOMAIN returned
        /\ OnCycle(CurGraph, PointOf(x))
        /\ ret.op = "findShortestPath"
        /\ ret.out = "path"
        /\ ret.val[1].start = PointOf(x)
        /\ ret.val[1].segs = <<>>

\* C8: addEdge(from, to, label) with from or to not a node of the graph
\* throws InvalidArgument and leaves the node set and every edge set as they
\* were: no node and no edge is created.
C8_AddEdgeMissingNode ==
    [][\/ /\ ret'.out = "InvalidArgument"
          /\ nodes' = nodes
          /\ neighbors' = neighbors
       \/ \A a \in Node, b \in Node, l \in Weight :
             (a \notin nodes \/ b \notin nodes) => ~AddEdgeCall(a, b, l)]_vars

\* C8 witness: addEdge threw InvalidArgument on a graph that has nodes and
\* edges and lacks a node.
C8_Witness ==
    /\ ret.op = "addEdge"
    /\ ret.out = "InvalidArgument"
    /\ nodes # {}
    /\ nodes # Node
    /\ EdgeTotal(CurGraph) > 0

\* C9: addEdge(A, B, label) changes at most the outgoing edge set of A: the
\* node set, the set listEdgesOut(B) returns for B # A, and every other
\* node's outgoing set are the same after the call as before.
C9_AddEdgeDirected ==
    [][\A a \in Node :
          \/ /\ nodes' = nodes
             /\ DOMAIN neighbors' = DOMAIN neighbors
             /\ \A n \in DOMAIN neighbors :
                   n # a => /\ neighbors'[n] = neighbors[n]
                            /\ listEdgesOut(Graph(nodes', neighbors'), n).val
                                 = listEdgesOut(CurGraph, n).val
          \/ \A b \in Node, l \in Weight : ~AddEdgeCall(a, b, l)]_vars

\* C9 witness: addEdge has inserted an edge, and the graph stores an edge
\* A -> B, A # B, with no edge leaving B at all.
C9_Witness ==
    /\ ret.op = "addEdge"
    /\ ret.out = "true"
    /\ \E a \in nodes : \E e \in neighbors[a] :
          e.to # a /\ neighbors[e.to] = {}

\* C10: addNode(n) returns true exactly when n was not a node before the
\* call; addNode of a node already present returns false and changes
\* nothing, the edges leaving n included.
C10_AddNodeIdempotent ==
    [][\A n \in Node :
          AddNodeCall(n)
              => /\ (ret'.out = "true") <=> (n \notin nodes)
                 /\ (ret'.out = "false") <=> (n \in nodes)
                 /\ n \in nodes => (nodes' = nodes /\ neighbors' = neighbors)
                 /\ n \notin nodes
                      => /\ nodes' = nodes \cup {n}
                         /\ \A m \in nodes : neighbors'[m] = neighbors[m]]_vars

\* C10 witness: addNode returned false on a graph in which every node has
\* outgoing edges, so the node added again had edges to lose.
C10_Witness ==
    /\ ret.op = "addNode"
    /\ ret.out = "false"
    /\ nodes # {}
    /\ \A n \in nodes : neighbors[n] # {}

\* --------------------------------------------- claims on edges and counts
\* The labels stored on edges n1 -> n2.
LabelsBetween(G, n1, n2) ==
    {l \in Weight : LabeledEdge(n1, n2, l) \in G.neighbors[n1]}

\* C11: no (from, to, label) triple is stored twice.  addEdge on two nodes
\* of the graph returns true exactly when no equal edge was stored, and then
\* stores just that edge; a repeated addEdge returns false and changes
\* nothing; edges with the same endpoints and different labels coexist, so
\* numEdges(n1, n2) on two nodes of the graph is the number of distinct
\* labels stored between n1 and n2.
C11_NoDuplicateEdge ==
    [][/\ \A a \in nodes, b \in nodes, l \in Weight :
             AddEdgeCall(a, b, l)
                 => LET edge == LabeledEdge(a, b, l)
                    IN /\ (ret'.out = "true") <=> (edge \notin neighbors[a])
                       /\ (ret'.out = "false") <=> (edge \in neighbors[a])
                       /\ neighbors'[a] = neighbors[a] \cup {edge}
                       /\ edge \in neighbors[a] => neighbors' = neighbors
                       /\ LabelsBetween(Graph(nodes', neighbors'), a, b)
                            = LabelsBetween(CurGraph, a, b) \cup {l}
       /\ \A n1 \in nodes, n2 \in nodes, ea \in BOOLEAN :
             NumEdgesCall(n1, n2, ea)
                 => /\ ret'.out = "count"
                    /\ ret'.val
                         = <<Cardinality(LabelsBetween(CurGraph, n1, n2))>>]_vars

\* C11 witness: numEdges counted 2 between two different nodes joined by
\* two edges that differ in their label only.
C11_Witness ==
    /\ ret.op = "numEdges"
    /\ ret.out = "count"
    /\ ret.val = <<2>>
    /\ \E n1 \in nodes, n2 \in nodes :
          /\ n1 # n2
          /\ Cardinality(LabelsBetween(CurGraph, n1, n2)) = 2

\* C12: removeEdge(from, to, label) throws InvalidArgument when from or to
\* is not a node; otherwise it returns the edge and removes that one triple
\* when it is stored, and returns null and changes nothing when it is not.
\* It never removes a node or another edge, so removing an edge just added
\* (and absent before) gives back the graph as it was.
C12_RemoveEdge ==
    [][/\ \A a \in Node, b \in Node, l \in Weight :
             RemoveEdgeCall(a, b, l)
                 => LET edge == LabeledEdge(a, b, l)
                    IN /\ nodes' = nodes
                       /\ DOMAIN neighbors' = DOMAIN neighbors
                       /\ (a \notin nodes \/ b \notin nodes)
                            => /\ ret'.out = "InvalidArgument"
                               /\ neighbors' = neighbors
                       /\ (a \in nodes /\ b \in nodes
                             /\ edge \in neighbors[a])
                            => /\ ret'.out = "edge"
                               /\ ret'.val = <<edge>>
                               /\ neighbors'
                                    = [neighbors EXCEPT ![a] = @ \ {edge}]
                       /\ (a \in nodes /\ b \in nodes
                             /\ edge \notin neighbors[a])
                            => /\ ret'.out = "null"
                               /\ neighbors' = neighbors
       /\ \A a \in nodes, b \in nodes, l \in Weight :
             LabeledEdge(a, b, l) \notin neighbors[a]
                 => removeEdge(addEdge(CurGraph, a, b, l).graph, a, b, l).graph
                      = CurGraph]_vars

\* C12 witness: removeEdge returned the removed edge, and an edge with the
\* same endpoints and another label is still stored.
C12_Witness ==
    /\ ret.op = "removeEdge"
    /\ ret.out = "edge"
    /\ LET e == ret.val[1]
       IN /\ e \notin neighbors[e.from]
          /\ \E f \in neighbors[e.from] : f.to = e.to /\ f.label # e.label

\* C13: numEdges(n1, n2) throws InvalidArgument whenever n1 or n2 is not a
\* node of the graph, and otherwise returns the number of stored edges from
\* n1 to n2.
C13_NumEdgesInvalidArgument ==
    [][\A n1 \in Node, n2 \in Node, ea \in BOOLEAN :
          NumEdgesCall(n1, n2, ea)
              => IF n1 \notin nodes \/ n2 \notin nodes
                 THEN ret'.out = "InvalidArgument"
                 ELSE /\ ret'.out = "count"
                      /\ ret'.val
                           = <<Cardinality({e \in neighbors[n1] :
                                               e.to = n2})>>]_vars

\* C14: in every state reached by addNode, addEdge and removeEdge calls,
\* failing ones included, the node set is the key set of the adjacency
\* map, every stored edge is stored under its from node, and every stored
\* edge leads to a node of the graph.
C14_RepInvariant ==
    /\ nodes = DOMAIN neighbors
    /\ \A n \in DOMAIN neighbors :
          \A e \in neighbors[n] : e.from = n /\ e.to \in nodes

\* C14 witness: removeEdge has just thrown InvalidArgument on a graph that
\* stores an edge between two different nodes and a self-loop.
C14_Witness ==
    /\ ret.op = "removeEdge"
    /\ ret.out = "InvalidArgument"
    /\ \E n \in nodes : \E e \in neighbors[n] : e.to # n
    /\ \E n \in nodes : \E e \in neighbors[n] : e.to = n

\* ------------------------------------------------------- claims on Path
\* The segments of q before its last one.
Front(q) == SubSeq(q.segs, 1, Len(q.segs) - 1)

RECURSIVE SegCost(_)
SegCost(segs) == IF segs = <<>> THEN 0 ELSE segs[1].cost + SegCost(Tail(segs))

\* Each segment starts where the previous one ends, the first at the start.
Chained(q) ==
    /\ q.segs # <<>> => q.segs[1].start = q.start
    /\ \A i \in 1..(Len(q.segs) - 1) : q.segs[i].end = q.segs[i + 1].start

\* The paths of the run: the fringe's and the returned one.
RunPaths ==
    solver.fringe
      \cup (IF solver.result.out = "path" THEN {solver.result.val[1]} ELSE {})

\* C15: extend does not change the path it is called on.  When the solver
\* expands a popped path p along several edges, every path pushed is p's
\* own segments, end and cost plus one segment: no extension sees the
\* segments or the cost of another, and the paths waiting in the fringe are
\* the same after the step.
C15_ExtendLeavesPath ==
    [][solver'.finished # solver.finished
          => \E p \in solver.fringe :
                /\ solver.fringe \ {p} \subseteq solver'.fringe
                /\ \A q \in solver'.fringe \ solver.fringe :
                      /\ Len(q.segs) = Len(p.segs) + 1
                      /\ Front(q) = p.segs
                      /\ q.start = p.start
                      /\ q.segs[Len(q.segs)].start = getEnd(p)
                      /\ getCost(q) = getCost(p) + q.segs[Len(q.segs)].cost]_vars

\* C15 witness: the fringe holds two different paths of the same length
\* that share a prefix of at least one segment, pushed by one expansion.
C15_Witness ==
    \E p \in solver.fringe, q \in solver.fringe :
       /\ p # q
       /\ Len(p.segs) >= 2
       /\ Len(q.segs) = Len(p.segs)
       /\ Front(p) = Front(q)

\* C16: for every path p of a run, node n and cost w >= 0, p.extend(n, w)
\* has p's segments followed by the one segment (p.end -> n, w), ends at n,
\* starts where p starts and costs p.cost + w; so every path's cost is the
\* sum of its segments' costs and its segments chain end to start.
C16_ExtendAppends ==
    \A p \in RunPaths :
       /\ getCost(p) = SegCost(p.segs)
       /\ Chained(p)
       /\ \A n \in Node, w \in Label :
             LET q == extend(p, n, w)
             IN /\ q.segs = p.segs \o <<[start |-> getEnd(p), end |-> n,
                                         cost |-> w]>>
                /\ getEnd(q) = n
                /\ q.start = p.start
                /\ getCost(q) = getCost(p) + w
                /\ getCost(q) = SegCost(q.segs)
                /\ Chained(q)

\* C16 witness: a returned path of two segments with a positive cost.
C16_Witness ==
    /\ solver.result.out = "path"
    /\ Len(solver.result.val[1].segs) = 2
    /\ solver.result.val[1].segs[1].cost > 0
    /\ solver.result.val[1].segs[2].cost > 0

\* ------------------------------------------- claims on the map's indices
\* No two building records read by the constructor share a short name.
DistinctShortNames ==
    \A b1 \in buildings, b2 \in buildings :
       b1.shortName = b2.shortName => b1 = b2

\* The Points the short names lead to.
BuildingPoints == {shortNameToPoint[sn] : sn \in DOMAIN shortNameToPoint}

\* C17: for building records with pairwise distinct short names, once the
\* CampusMap is constructed and after any queries, the short-name index and
\* the point index have the same size, which is the number of buildings:
\* one Point per building.
C17_IndexSizes ==
    (pc = "ready" /\ DistinctShortNames)
        => /\ Cardinality(DOMAIN shortNameToPoint)
                = Cardinality(DOMAIN pointToBuildings)
           /\ Cardinality(DOMAIN shortNameToPoint) = Cardinality(buildings)
           /\ Cardinality(BuildingPoints) = Cardinality(buildings)
           /\ BuildingPoints = DOMAIN pointToBuildings

\* C17 witness: a constructed map of two buildings with different short
\* names has answered a query with a path.
C17_Witness ==
    /\ pc = "ready"
    /\ DistinctShortNames
    /\ Cardinality(buildings) = 2
    /\ ret.op = "findShortestPath"
    /\ ret.out = "path"

\* C18: the cache only grows.  No step removes a key or replaces a stored
\* value, a step adds at most one key, and a query for a pair that has an
\* entry creates nothing and runs no solver.
C18_CacheAppendOnly ==
    [][/\ \A k \in DOMAIN shortestPathMap :
             /\ k \in DOMAIN shortestPathMap'
             /\ shortestPathMap'[k] = shortestPathMap[k]
       /\ Cardinality(DOMAIN shortestPathMap')
            <= Cardinality(DOMAIN shortestPathMap) + 1
       /\ \/ /\ shortestPathMap' = shortestPathMap
             /\ solverCalls' = solverCalls
          \/ \A s \in QueryNames, e \in QueryNames :
                <<s, e>> \in DOMAIN shortestPathMap
                    => ~FindShortestPathCall(s, e)]_vars

\* C18 witness: the cache holds two entries, one a path and one "no path",
\* and the last query was answered from it.
C18_Witness ==
    /\ ret.op = "findShortestPath"
    /\ ret.hit
    /\ \E k1 \in DOMAIN shortestPathMap, k2 \in DOMAIN shortestPathMap :
          /\ shortestPathMap[k1].out = "path"
          /\ shortestPathMap[k2].out = "null"

\* C19: for each path record the constructor makes both end points nodes
\* and adds the one edge p1 -> p2 with the record's distance; no other edge
\* set changes, so no edge p2 -> p1 appears.  With an edge one way only,
\* the query along it finds a path and the query against it finds none.
C19_OneDirectedEdge ==
    [][/\ \A path \in PathRecords :
             ConstructPath(path)
                 => /\ nodes' = nodes \cup {path.p1, path.p2}
                    /\ DOMAIN neighbors' = nodes'
                    /\ \A n \in nodes' :
                          neighbors'[n]
                            = (IF n \in nodes THEN neighbors[n] ELSE {})
                                \cup (IF n = path.p1
                                      THEN {LabeledEdge(path.p1, path.p2,
                                                        path.distance)}
                                      ELSE {})
       /\ \A x \in Registered, y \in Registered :
             (/\ pc = "ready"
              /\ PointOf(x) # PointOf(y)
              /\ \E e \in neighbors[PointOf(x)] : e.to = PointOf(y)
              /\ neighbors[PointOf(y)] = {})
                 => /\ <<x, y>> \in DOMAIN shortestPathMap
                         => shortestPathMap[<<x, y>>].out = "path"
                    /\ <<y, x>> \in DOMAIN shortestPathMap
                         => shortestPathMap[<<y, x>>].out = "null"]_vars

\* C19 witness: one path record between two buildings, and the cache holds
\* a path along it and "no path" against it.
C19_Witness ==
    /\ pc = "ready"
    /\ EdgeTotal(CurGraph) = 1
    /\ \E x \in Registered, y \in Registered :
          /\ <<x, y>> \in DOMAIN shortestPathMap
          /\ <<y, x>> \in DOMAIN shortestPathMap
          /\ shortestPathMap[<<x, y>>].out = "path"
          /\ Len(shortestPathMap[<<x, y>>].val[1].segs) = 1
          /\ shortestPathMap[<<y, x>>].out = "null"

\* C20 as the specification states it: longNameForShort fails with NotFound
\* for a short name that is not registered, and otherwise returns the long
\* name of the building registered under that short name.
C20_LongNameNotFound ==
    [][\A sn \in QueryNames :
          LongNameForShortCall(sn)
              => IF sn \notin Registered
                 THEN ret'.out = "NotFound"
                 ELSE /\ ret'.out = "name"
                      /\ \E b \in buildings :
                            b.shortName = sn /\ ret'.val = <<b.longName>>]_vars

\* C20, amended: longNameForShort fails with InvalidArgument, the error of
\* the name-based queries, for a short name that is not registered (null
\* and the empty name included), and changes nothing; otherwise, the
\* building records having pairwise distinct short names, it returns the
\* long name of the building registered under that short name.
C20_LongNameInvalidArgument ==
    [][\A sn \in QueryNames :
          LongNameForShortCall(sn)
              => IF sn \notin Registered
                 THEN ret'.out = "InvalidArgument"
                 ELSE DistinctShortNames
                        => /\ ret'.out = "name"
                           /\ \E b \in buildings :
                                 /\ b.shortName = sn
                                 /\ b.point = PointOf(sn)
                                 /\ ret'.val = <<b.longName>>]_vars

\* C20 witness: on a map of two buildings, with a path cached, the lookup
\* of a name that is not registered has failed.
C20_Witness ==
    /\ pc = "ready"
    /\ Cardinality(Registered) = 2
    /\ DistinctShortNames
    /\ DOMAIN shortestPathMap # {}
    /\ ret.op = "longNameForShort"
    /\ ret.out = "InvalidArgument"

BothMissed ==
    /\ \A t \in Thread : threads[t].pc \in {"solve", "put", "putting", "return"}
    /\ threads[1].names = threads[2].names

C23_QueriesReadOnly ==
    [][pc = "ready"
          => /\ pc' = "ready"
             /\ nodes' = nodes
             /\ neighbors' = neighbors
             /\ shortNameToPoint' = shortNameToPoint
             /\ pointToBuildings' = pointToBuildings
             /\ buildings' = buildings]_vars

\* C23 witness: with a path and a "no path" in the cache, buildingNames has
\* listed two buildings.
C23_Witness ==
    /\ pc = "ready"
    /\ ret.op = "buildingNames"
    /\ DOMAIN ret.val[1] = ShortNames
    /\ \E k \in DOMAIN shortestPathMap : shortestPathMap[k].out = "path"
    /\ \E k \in DOMAIN shortestPathMap : shortestPathMap[k].out = "null"

\* ------------------------------------------------ claims on LabeledEdge
\* C24: two LabeledEdges are equal exactly when from, to and label are all
\* equal; compareTo returns 0 only for equal edges; for unequal edges it
\* orders by the labels when the destinations coincide and by the
\* destinations, one way or the other, when they differ.
C24_EdgeOrder ==
    /\ ret.op = "equals"
         => ((ret.out = "true") <=> (ret.val[1] = ret.val[2]))
    /\ ret.op = "compareTo"
         => LET this == ret.val[1]
                o == ret.val[2]
            IN /\ ret.out = "zero" => this = o
               /\ (this # o /\ this.to = o.to /\ this.label # o.label)
                    => ret.out = Compare(this.label, o.label)
               /\ this.to # o.to
                    => /\ ret.out # "zero"
                       /\ edgeCompareTo(o, this) # ret.out

\* ------------------------------------------- claims on the solver's loop
\* C25: shortestPathSolver terminates on every finite graph, cycles,
\* self-loops and zero-weight edges included: every run reaches its return,
\* with a path or with null.
C25_Terminates ==
    <>(solver.pc = "done" /\ solver.result.out \in {"path", "null"})

\* C25 witness: a run has returned on a graph that has a zero-weight
\* self-loop on an expanded node and a cycle through two expanded nodes.
C25_Witness ==
    /\ solver.pc = "done"
    /\ \E n \in solver.finished :
          LabeledEdge(n, n, 0) \in neighbors[n]
    /\ \E a \in solver.finished, b \in solver.finished :
          /\ a # b
          /\ \E e \in neighbors[a] : e.to = b
          /\ \E e \in neighbors[b] : e.to = a

\* C26: in a run on non-negative weights, a node enters the finished set
\* only in the step that pops a path ending at it, and that path costs the
\* minimum over all routes from start to the node; the popped path costs no
\* more than any path left or pushed in the fringe, so the costs of
\* successively popped paths never decrease.
C26_FinishedAtMinCost ==
    [][/\ solver.fringe # {} => Cardinality(solver.fringe \ solver'.fringe) = 1
       /\ solver.fringe = {} => solver'.finished = solver.finished
       /\ \A p \in solver.fringe \ solver'.fringe :
             /\ \A q \in solver.fringe \cup solver'.fringe :
                   getCost(p) <= getCost(q)
             /\ solver'.finished \in
                   {solver.finished, solver.finished \cup {getEnd(p)}}
             /\ solver'.finished # solver.finished
                   => IsMinCost(CurGraph, query.start, getEnd(p), getCost(p))
      ]_vars

\* C26 witness: a node other than start is finished while a costlier path
\* to it still waits in the fringe.
C26_Witness ==
    \E n \in solver.finished \ {query.start} :
       \E q \in solver.fringe :
          /\ getEnd(q) = n
          /\ ~IsMinCost(CurGraph, query.start, n, getCost(q))

\* C27: each node is expanded at most once.  A popped path whose end is
\* already finished is dropped and nothing is pushed; an expansion is of a
\* node not yet finished, finishes it, and pushes exactly one path per
\* outgoing edge whose destination is not finished; nothing leaves the
\* finished set; and the pushes of a run, the start path included, number
\* at most 1 plus the number of edges.
C27_ExpandedOnce ==
    /\ [](pushes <= 1 + EdgeTotal(CurGraph))
    /\ [][\A p \in solver.fringe \ solver'.fringe :
             /\ solver.finished \subseteq solver'.finished
             /\ getEnd(p) \in solver.finished
                  => /\ solver'.fringe = solver.fringe \ {p}
                     /\ solver'.finished = solver.finished
                     /\ pushes' = pushes
             /\ solver'.finished # solver.finished
                  => /\ getEnd(p) \notin solver.finished
                     /\ solver'.finished = solver.finished \cup {getEnd(p)}
                     /\ solver'.fringe \ solver.fringe =
                          {extend(p, e.to, e.label) :
                             e \in {x \in neighbors[getEnd(p)] :
                                       x.to \notin solver.finished}}
                     /\ pushes' = pushes
                          + Cardinality({x \in neighbors[getEnd(p)] :
                                            x.to \notin solver.finished})
             /\ pushes' # pushes => solver'.finished # solver.finished
      ]_vars

\* C27 witness: a path ending at a finished node has been popped and
\* dropped: both nodes other than the end are finished, the fringe is empty
\* and more paths were pushed than nodes were expanded.
C27_Witness ==
    /\ solver.pc = "loop"
    /\ Cardinality(solver.finished) = 2
    /\ solver.fringe = {}
    /\ pushes = 1 + EdgeTotal(CurGraph)
    /\ pushes > 2

\* C28: a path returned by shortestPathSolver(graph, start, end) is a route
\* of the graph: it starts at start, ends at end, each segment starts where
\* the previous one ends, and each segment (u, v, c) is a stored edge from u
\* to v with label c.
C28_ReturnedRoute ==
    (solver.pc = "done" /\ solver.result.out = "path")
        => LET p == solver.result.val[1]
           IN /\ p.start = query.start
              /\ getEnd(p) = query.end
              /\ Chained(p)
              /\ \A i \in 1..Len(p.segs) :
                    /\ p.segs[i].start \in nodes
                    /\ LabeledEdge(p.segs[i].start, p.segs[i].end,
                                   p.segs[i].cost)
                          \in neighbors[p.segs[i].start]

\* C28 witness: a returned path of two segments with different costs, in a
\* graph that also stores an edge the path does not use.
C28_Witness ==
    /\ solver.pc = "done"
    /\ solver.result.out = "path"
    /\ Len(solver.result.val[1].segs) = 2
    /\ solver.result.val[1].segs[1].cost # solver.result.val[1].segs[2].cost
    /\ EdgeTotal(CurGraph) = 3

\* ------------------------------------------------- claims on the cache
\* What a fresh, uncached solver run from the node of name a to the node of
\* name b can return on the map's graph.
FreshRun(a, b) ==
    shortestPathSolver(CurGraph, GetPoint(shortNameToPoint, a),
                       GetPoint(shortNameToPoint, b))

\* C29: the cache is a memoization layer.  After any sequence of
\* findShortestPath calls over any mix of name pairs, the cache entry of
\* every pair (A,B) and every value returned for (A,B) is what a fresh
\* solver run from A's node to B's node returns on the graph; the entries
\* and answers of the other pairs do not enter into it.
C29_Memoization ==
    /\ \A k \in DOMAIN shortestPathMap :
          /\ shortestPathMap[k] \in FreshRun(k[1], k[2])
          /\ shortestPathMap[k].out \in {"path", "null"}
    /\ \A k \in DOMAIN returned :
          /\ returned[k] \subseteq FreshRun(k[1], k[2])
          /\ k \in DOMAIN shortestPathMap
          /\ returned[k] = {shortestPathMap[k]}

\* C29 witness: the pairs (a,b) and (b,a) are both cached with different
\* results, one of them a path over an edge, and the last call was answered
\* from the cache.
C29_Witness ==
    /\ ret.op = "findShortestPath"
    /\ ret.hit
    /\ <<"a", "b">> \in DOMAIN shortestPathMap
    /\ <<"b", "a">> \in DOMAIN shortestPathMap
    /\ shortestPathMap[<<"a", "b">>] # shortestPathMap[<<"b", "a">>]
    /\ \E k \in DOMAIN shortestPathMap :
          /\ shortestPathMap[k].out = "path"
          /\ shortestPathMap[k].val[1].segs # <<>>

\* C30: CampusMap establishes the solver's membership precondition.  The
\* Point of every registered short name is a node of the graph, every node
\* has its edge set and every stored edge leads to a node, so every node a
\* run can reach is in the graph; no solver run for two registered names
\* can fail with InvalidArgument, and every run findShortestPath started
\* has stored its result.
C30_MembershipPrecondition ==
    /\ \A sn \in DOMAIN shortNameToPoint : shortNameToPoint[sn] \in nodes
    /\ \A n \in nodes :
          /\ n \in DOMAIN neighbors
          /\ \A e \in neighbors[n] : e.to \in nodes
    /\ \A a \in DOMAIN shortNameToPoint :
          \A n \in Reach(CurGraph, {shortNameToPoint[a]}) :
             listEdgesOut(CurGraph, n).out # "InvalidArgument"
    /\ \A a \in DOMAIN shortNameToPoint, b \in DOMAIN shortNameToPoint :
          ThrowResult \notin FreshRun(a, b)
    /\ \A k \in DOMAIN solverCalls : k \in DOMAIN shortestPathMap

\* C30 witness: the solver has just run, and returned null, for a start
\* building that no path record touches, on a graph that has an edge.
C30_Witness ==
    /\ ret.op = "findShortestPath"
    /\ ~ret.hit
    /\ ret.out = "null"
    /\ EdgeTotal(CurGraph) = 1
    /\ \E k \in DOMAIN solverCalls :
          /\ k[1] # k[2]
          /\ Isolated(CurGraph, shortNameToPoint[k[1]])

====
